---------------------------- MODULE Spec2Model ----------------------------
(* A model of the single-domain crawler of src/crawler/main.py.           *)
(* URLs are sequences of one-character strings, so that urlparse,         *)
(* normalize_url, urljoin and the path mapping of save_page are computed  *)
(* on the text of a URL, as the program computes them.                    *)
EXTENDS Integers, Sequences, FiniteSets, TLC

-----------------------------------------------------------------------------
(* Text helpers: the str methods the program and urllib.parse rely on.    *)

Lower == {"a","b","c","d","e","f","g","h","i","j","k","l","m",
          "n","o","p","q","r","s","t","u","v","w","x","y","z"}

Upper == {"A","B","C","D","E","F","G","H","I","J","K","L","M",
          "N","O","P","Q","R","S","T","U","V","W","X","Y","Z"}

Digits == {"0","1","2","3","4","5","6","7","8","9"}

\* urllib.parse.scheme_chars
scheme_chars == Lower \cup Upper \cup Digits \cup {"+", "-", "."}

\* str.isalpha() on one ASCII character
isalpha(c) == c \in Lower \cup Upper

\* str.lower() on one character (the upper-case letters a scheme of the
\* modelled inputs can contain)
lower_char(c) ==
  CASE c = "H" -> "h" [] c = "T" -> "t" [] c = "P" -> "p"
    [] c = "S" -> "s" [] c = "F" -> "f" [] OTHER -> c

\* str.lower()
lower(s) == [i \in 1..Len(s) |-> lower_char(s[i])]

\* s[i:] with a 1-based first index
from(s, i) == SubSeq(s, i, Len(s))

\* s.find(c, start): the least 1-based index >= start holding a character
\* of cs, or 0 (Python's -1) when there is none
find(s, cs, start) ==
  IF \E i \in start..Len(s) : s[i] \in cs
    THEN CHOOSE i \in start..Len(s) :
           s[i] \in cs /\ \A j \in start..(i-1) : s[j] \notin cs
    ELSE 0

\* s.rfind(c): the greatest 1-based index holding c, or 0
rfind(s, c) ==
  IF \E i \in 1..Len(s) : s[i] = c
    THEN CHOOSE i \in 1..Len(s) :
           s[i] = c /\ \A j \in (i+1)..Len(s) : s[j] # c
    ELSE 0

\* c in s
contains(s, c) == \E i \in 1..Len(s) : s[i] = c

\* s.startswith(p)
startswith(s, p) == Len(s) >= Len(p) /\ SubSeq(s, 1, Len(p)) = p

\* s.endswith(c) for one character
endswith(s, c) == Len(s) > 0 /\ s[Len(s)] = c

\* s.lstrip('/')
lstrip(s) ==
  LET k == IF \E i \in 1..Len(s) : s[i] # "/"
             THEN CHOOSE i \in 1..Len(s) :
                    s[i] # "/" /\ \A j \in 1..(i-1) : s[j] = "/"
             ELSE Len(s) + 1
  IN  from(s, k)

RECURSIVE split(_)
\* s.split('/'): the sequence of segments between slashes
split(s) ==
  LET i == find(s, {"/"}, 1)
  IN  IF i = 0 THEN <<s>>
      ELSE <<SubSeq(s, 1, i-1)>> \o split(from(s, i+1))

RECURSIVE join(_)
\* '/'.join(segments)
join(segs) ==
  IF Len(segs) = 0 THEN <<>>
  ELSE IF Len(segs) = 1 THEN segs[1]
  ELSE segs[1] \o <<"/">> \o join(Tail(segs))

-----------------------------------------------------------------------------
(* urllib.parse, as called by the crawler.                                *)

http  == <<"h","t","t","p">>
https == <<"h","t","t","p","s">>
ftp   == <<"f","t","p">>
empty == <<>>

\* urllib.parse.uses_params / uses_relative / uses_netloc, restricted to
\* the schemes of the modelled inputs
uses_params   == {empty, ftp, http, https}
uses_relative == {empty, ftp, http, https}
uses_netloc   == {empty, ftp, http, https}

\* urllib.parse._splitparams
splitparams(url) ==
  LET i == IF contains(url, "/")
             THEN find(url, {";"}, rfind(url, "/"))
             ELSE find(url, {";"}, 1)
  IN  IF i = 0 THEN [path |-> url, params |-> empty]
      ELSE [path |-> SubSeq(url, 1, i-1), params |-> from(url, i+1)]

\* urlsplit: url[:i] is a scheme (i is the 1-based index of the first ':')
has_scheme(url, i) ==
  /\ i > 1
  /\ isalpha(url[1])
  /\ \A j \in 1..(i-1) : url[j] \in scheme_chars

\* _splitnetloc: the index of the first of '/?#' after the leading '//',
\* or the end of the text
netloc_end(url) ==
  LET d == find(url, {"/","?","#"}, 3)
  IN  IF d = 0 THEN Len(url) + 1 ELSE d

\* s.split(c, 1)[0] where c is in s, else s
before(s, c) ==
  LET h == find(s, {c}, 1)
  IN  IF h = 0 THEN s ELSE SubSeq(s, 1, h-1)

\* s.split(c, 1)[1] where c is in s, else ''
after(s, c) ==
  LET h == find(s, {c}, 1)
  IN  IF h = 0 THEN empty ELSE from(s, h+1)

\* urlsplit: the IPv6 bracket check on netloc
bracket_mismatch(netloc) ==
  \/ contains(netloc, "[") /\ ~contains(netloc, "]")
  \/ contains(netloc, "]") /\ ~contains(netloc, "[")

\* urlparse, last step: params are split off the path
parse_params(scheme, netloc, url, query, fragment) ==
  [raises   |-> bracket_mismatch(netloc),
   scheme   |-> scheme,
   netloc   |-> netloc,
   path     |-> IF scheme \in uses_params /\ contains(url, ";")
                  THEN splitparams(url).path ELSE url,
   params   |-> IF scheme \in uses_params /\ contains(url, ";")
                  THEN splitparams(url).params ELSE empty,
   query    |-> query,
   fragment |-> fragment]

\* urlsplit: the query is split off at the first '?'
parse_query(scheme, netloc, url, fragment) ==
  parse_params(scheme, netloc, before(url, "?"), after(url, "?"), fragment)

\* urlsplit: the fragment is split off at the first '#'
parse_fragment(scheme, netloc, url) ==
  parse_query(scheme, netloc, before(url, "#"), after(url, "#"))

\* urlsplit: the netloc is split off after a leading '//'
parse_netloc(scheme, url) ==
  parse_fragment(scheme,
                 IF startswith(url, <<"/","/">>)
                   THEN SubSeq(url, 3, netloc_end(url) - 1) ELSE empty,
                 IF startswith(url, <<"/","/">>)
                   THEN from(url, netloc_end(url)) ELSE url)

\* urlsplit: the scheme is split off at the first ':' and lower-cased
parse_scheme(url, default, i) ==
  parse_netloc(IF has_scheme(url, i) THEN lower(SubSeq(url, 1, i-1))
               ELSE default,
               IF has_scheme(url, i) THEN from(url, i+1) ELSE url)

\* urllib.parse.urlparse(url, scheme=default): the six components, and
\* raises = TRUE where urlsplit raises ValueError("Invalid IPv6 URL")
urlparse_d(url, default) == parse_scheme(url, default, find(url, {":"}, 1))

\* urllib.parse.urlparse(url)
urlparse(url) == urlparse_d(url, empty)

\* urlunsplit: '//' + netloc in front of the path
with_netloc(scheme, netloc, url) ==
  IF \/ netloc # empty
     \/ (scheme # empty /\ scheme \in uses_netloc
         /\ ~startswith(url, <<"/","/">>))
    THEN <<"/","/">> \o netloc
         \o (IF url # empty /\ url[1] # "/" THEN <<"/">> \o url ELSE url)
    ELSE url

\* urlunsplit: scheme + ':' in front, '?' + query and '#' + fragment behind
with_scheme(scheme, url, query, fragment) ==
  (IF scheme # empty THEN scheme \o <<":">> ELSE empty)
    \o url
    \o (IF query # empty THEN <<"?">> \o query ELSE empty)
    \o (IF fragment # empty THEN <<"#">> \o fragment ELSE empty)

\* urllib.parse.urlunparse
urlunparse(scheme, netloc, path, params, query, fragment) ==
  with_scheme(scheme,
              with_netloc(scheme, netloc,
                          IF params # empty THEN path \o <<";">> \o params
                          ELSE path),
              query, fragment)

RECURSIVE resolve(_, _)
\* The dot-segment loop of urljoin: '..' pops (ignored on an empty list),
\* '.' is skipped, any other segment is appended
resolve(segments, acc) ==
  IF Len(segments) = 0 THEN acc
  ELSE LET seg == Head(segments)
       IN  IF seg = <<".",".">>
             THEN resolve(Tail(segments),
                          IF Len(acc) = 0 THEN acc
                          ELSE SubSeq(acc, 1, Len(acc) - 1))
           ELSE IF seg = <<".">> THEN resolve(Tail(segments), acc)
           ELSE resolve(Tail(segments), Append(acc, seg))

\* segments[1:-1] = filter(None, segments[1:-1])
filter_inner(segs) ==
  IF Len(segs) <= 2 THEN segs
  ELSE <<segs[1]>>
       \o SelectSeq(SubSeq(segs, 2, Len(segs) - 1), LAMBDA x : x # empty)
       \o <<segs[Len(segs)]>>

\* urljoin: the segments of the base path without its last, non-directory
\* segment
base_parts(bpath) ==
  LET parts == split(bpath)
  IN  IF parts[Len(parts)] # empty THEN SubSeq(parts, 1, Len(parts) - 1)
      ELSE parts

\* urljoin: the segments to resolve
segments_of(bpath, path) ==
  IF startswith(path, <<"/">>) THEN split(path)
  ELSE filter_inner(base_parts(bpath) \o split(path))

\* urljoin: the resolved segments, with a trailing '' after a final dot
\* segment
resolved_path(segments) ==
  IF segments[Len(segments)] \in {<<".">>, <<".",".">>}
    THEN Append(resolve(segments, <<>>), empty)
    ELSE resolve(segments, <<>>)

\* '/'.join(resolved_path) or '/'
joined_path(resolved) ==
  IF join(resolved) = empty THEN <<"/">> ELSE join(resolved)

\* urljoin, once base (b) and url (u) are parsed
join_parsed(url, b, u) ==
  IF b.raises \/ u.raises THEN [raises |-> TRUE, url |-> empty]
  ELSE IF u.scheme # b.scheme \/ u.scheme \notin uses_relative
    THEN [raises |-> FALSE, url |-> url]
  ELSE IF u.netloc # empty
    THEN [raises |-> FALSE,
          url |-> urlunparse(u.scheme, u.netloc, u.path, u.params,
                             u.query, u.fragment)]
  ELSE IF u.path = empty /\ u.params = empty
    THEN [raises |-> FALSE,
          url |-> urlunparse(u.scheme, b.netloc, b.path, b.params,
                             IF u.query = empty THEN b.query ELSE u.query,
                             u.fragment)]
  ELSE [raises |-> FALSE,
        url |-> urlunparse(u.scheme, b.netloc,
                           joined_path(resolved_path(segments_of(b.path,
                                                                 u.path))),
                           u.params, u.query, u.fragment)]

\* urljoin: url is parsed with the scheme of base as its default
join_base(url, b) == join_parsed(url, b, urlparse_d(url, b.scheme))

\* urllib.parse.urljoin(base, url); raises = TRUE where urlparse raises
urljoin(base, url) ==
  IF base = empty THEN [raises |-> FALSE, url |-> url]
  ELSE IF url = empty THEN [raises |-> FALSE, url |-> base]
  ELSE join_base(url, urlparse_d(base, empty))

-----------------------------------------------------------------------------
(* os.path, as called by save_page.                                       *)

\* os.path.join(a, b) on POSIX
os_path_join(a, b) ==
  IF startswith(b, <<"/">>) THEN b
  ELSE IF a = empty \/ endswith(a, "/") THEN a \o b
  ELSE a \o <<"/">> \o b

\* os.path.basename(p) on POSIX
os_path_basename(p) == from(p, rfind(p, "/") + 1)

RECURSIVE climbs(_, _, _)
\* Walking the segments of a relative path from segment i at depth d
\* steps above the directory the path starts in
climbs(segs, i, d) ==
  IF i > Len(segs) THEN FALSE
  ELSE IF segs[i] = <<".",".">> THEN (d = 0 \/ climbs(segs, i + 1, d - 1))
  ELSE IF segs[i] = empty \/ segs[i] = <<".">> THEN climbs(segs, i + 1, d)
  ELSE climbs(segs, i + 1, d + 1)

\* The file f is one that os.walk(dir) finds: f is dir/<relative path>
\* and the relative path does not resolve to a location outside dir
inside(dir, f) ==
  /\ startswith(f, dir \o <<"/">>)
  /\ Len(f) > Len(dir) + 1
  /\ f[Len(dir) + 2] # "/"
  /\ ~climbs(split(from(f, Len(dir) + 2)), 1, 0)

-----------------------------------------------------------------------------
(* The pure methods of WebsiteCrawler.                                    *)

index_html == <<"i","n","d","e","x",".","h","t","m","l">>
dot_html   == <<".","h","t","m","l">>

\* normalize_url that strips the fragment but keeps the query
normalize_parsed_keeps_query(parsed) ==
  parsed.scheme \o <<":","/","/">> \o parsed.netloc \o parsed.path
    \o (IF parsed.query # empty THEN <<"?">> \o parsed.query ELSE empty)

\* normalize_url, line 61: the key from the parsed URL
normalize_parsed(parsed) ==
  parsed.scheme \o <<":","/","/">> \o parsed.netloc \o parsed.path

\* WebsiteCrawler.normalize_url
normalize_url(url) == normalize_parsed(urlparse(url))

\* The scope test accepting any host that ends in the seed's host
same_site_suffix(parsed, base_parsed) ==
  /\ Len(parsed.netloc) >= Len(base_parsed.netloc)
  /\ from(parsed.netloc, Len(parsed.netloc) - Len(base_parsed.netloc) + 1)
       = base_parsed.netloc
  /\ parsed.scheme \in {http, https}

\* is_valid_url, line 56: the test on the parsed URLs
same_site(parsed, base_parsed) ==
  parsed.netloc = base_parsed.netloc /\ parsed.scheme \in {http, https}

\* WebsiteCrawler.is_valid_url
is_valid_url(url, base) == same_site(urlparse(url), urlparse(base))

\* save_page's rules with the extension test on the whole path instead
\* of its basename
map_path_dot_anywhere(path) ==
  IF path = empty THEN index_html
  ELSE IF endswith(path, "/") THEN os_path_join(path, index_html)
  ELSE IF ~contains(path, ".") THEN path \o dot_html
  ELSE path

\* save_page, lines 68-73: the rules on the path without leading slashes
map_path(path) ==
  IF path = empty THEN index_html
  ELSE IF endswith(path, "/") THEN os_path_join(path, index_html)
  ELSE IF ~contains(os_path_basename(path), ".") THEN path \o dot_html
  ELSE path

\* The relative path save_page computes from the URL (lines 65-73)
save_path(url) == map_path(lstrip(urlparse(url).path))

\* full_path of save_page (line 75)
full_path(dir, url) == os_path_join(dir, save_path(url))

\* extract_links, lines 86-90, on one href value: the absolute URL that
\* urljoin returned, its normalized form and the scope test of the
\* absolute URL (raises = TRUE where urljoin raised ValueError)
link_of(href, absolute, base) ==
  IF absolute.raises
    THEN [href |-> href, raises |-> TRUE, url |-> empty, key |-> empty,
          valid |-> FALSE]
    ELSE [href   |-> href,
          raises |-> FALSE,
          url    |-> absolute.url,
          key    |-> normalize_url(absolute.url),
          valid  |-> is_valid_url(absolute.url, base)]

\* extract_links adding the absolute URL instead of the normalized one
links_of_absolute(links, visited) ==
  IF \E l \in links : l.raises
    THEN [raises |-> TRUE, links |-> {}]
    ELSE [raises |-> FALSE,
          links |-> { l.url : l \in { x \in links :
                                        x.valid /\ x.key \notin visited } }]

\* extract_links, lines 89-93: the links kept
links_of(links, visited) ==
  IF \E l \in links : l.raises
    THEN [raises |-> TRUE, links |-> {}]
    ELSE [raises |-> FALSE,
          links |-> { l.key : l \in { x \in links :
                                        x.valid /\ x.key \notin visited } }]

\* The links of the page at url, one per href value: urljoin,
\* normalize_url and is_valid_url applied once to each
links_at(url, hrefs, base) ==
  { link_of(href, urljoin(url, href), base) : href \in hrefs }

\* WebsiteCrawler.extract_links over the href values of a parsed page;
\* raises = TRUE where urljoin raises ValueError on some href
extract_links(links, hrefs, visited) ==
  links_of({l \in links : l.href \in hrefs}, visited)

\* Codec names Python's codec registry knows, among those modelled
KnownCodecs == {"utf-8", "gbk"}

\* WebsiteCrawler.get_encoding: the declared encoding unless absent or
\* ISO-8859-1, else chardet's guess, else utf-8
get_encoding(response) ==
  LET encoding == IF response.encoding = "none"
                     \/ response.encoding \in {"ISO-8859-1", "iso-8859-1"}
                    THEN response.detected
                    ELSE response.encoding
  IN  IF encoding = "none" THEN "utf-8" ELSE encoding

\* response.content.decode(encoding) with the UnicodeDecodeError fallback
\* of lines 114-117: "LookupError" for a codec Python does not know,
\* "fallback" when the strict decode fails, "ok" otherwise
decode(response, encoding) ==
  IF encoding \notin KnownCodecs THEN "LookupError"
  ELSE IF encoding \notin response.decodes THEN "fallback"
  ELSE "ok"

\* The classes `except Exception` catches, among those the body can raise
Exception == {"RequestException", "LookupError", "OSError", "ValueError"}

\* A handler that catches only the errors of the request
caught_request_only(e) == e = "RequestException"

\* except Exception as e (line 130)
caught(e) == e \in Exception

\* The loop condition with <= for <
loop_condition_le(to_visit, visited, budget) ==
  to_visit # {} /\ Cardinality(visited) <= budget

\* The loop condition without the budget
loop_condition_no_budget(to_visit, visited, budget) == to_visit # {}

\* The loop condition with "or" for "and"
loop_condition_or(to_visit, visited, budget) ==
  to_visit # {} \/ Cardinality(visited) < budget

\* The loop condition of crawl (line 104)
loop_condition(to_visit, visited, budget) ==
  to_visit # {} /\ Cardinality(visited) < budget

\* The dequeue check left out
already_visited_never(u, visited) == FALSE

\* The dequeue check of crawl (line 107)
already_visited(u, visited) == u \in visited

-----------------------------------------------------------------------------
(* The inputs of a run: the seed, the budget, and what the site serves.   *)

MaxBudget == 3
MaxLinks  == 2

\* The output directory of the modelled site
OutputDir == <<"o","u","t">>

\* The seed of the modelled site
Seeds == { <<"h","t","t","p",":","/","/","a","/">> }

\* href attribute values a page of the site can carry
Hrefs == {
  <<"/","p">>,
  <<"h","t","t","p",":","/","/","a","/","p","?","q","#","f">>,
  <<"h","t","t","p",":","/","/","a","/">>,
  <<"h","t","t","p","s",":","/","/","a","/","q","/">>,
  <<"h","t","t","p",":","/","/","b",".","a","/","x">>,
  <<"f","t","p",":","/","/","a","/","p">>,
  <<"h","t","t","p",":","/","/","a","/",".",".","/","e">>,
  <<"h","t","t","p",":","/","/","[">> }

\* The href sets of a page: at most MaxLinks links
Bodies == {B \in SUBSET Hrefs : Cardinality(B) <= MaxLinks}

\* (declared encoding, chardet's guess, codecs that decode the bytes)
EncCases == {
  [encoding |-> "utf-8",      detected |-> "none", decodes |-> {"utf-8"}],
  [encoding |-> "utf-8",      detected |-> "none", decodes |-> {"gbk"}],
  [encoding |-> "none",       detected |-> "none", decodes |-> {"utf-8"}],
  [encoding |-> "ISO-8859-1", detected |-> "gbk",  decodes |-> {"gbk"}],
  [encoding |-> "x-bogus",    detected |-> "none", decodes |-> {"utf-8"}] }

Statuses == {200, 500}

\* TARGET_SITES, for runs of crawl_all_sites: two sites and their
\* output directories
TARGET_SITES == <<
  [url |-> <<"h","t","t","p",":","/","/","c","/">>, dir |-> <<"o","1">>],
  [url |-> <<"h","t","t","p",":","/","/","d","/">>, dir |-> <<"o","2">>] >>

\* href attribute values the pages of the sites of TARGET_SITES can
\* carry: the first site links to the second, the second links to
\* itself and back to a page of the first
Served(base) ==
  IF base = TARGET_SITES[1].url
    THEN { <<"/","p">>, <<"h","t","t","p",":","/","/","d","/","p">> }
    ELSE { <<"/","p">>, <<"h","t","t","p",":","/","/","d","/">>,
           <<"h","t","t","p",":","/","/","c","/","p">> }

\* href attribute values the pages of the site crawled from base carry
HrefsOf(base) == IF base \in Seeds THEN Hrefs ELSE Served(base)

\* The href sets of a page of the site crawled from base
BodiesOf(base) ==
  IF base \in Seeds THEN Bodies
  ELSE {B \in SUBSET Served(base) : Cardinality(B) <= MaxLinks}

\* Files found in the output directories before crawl_all_sites runs
OldFiles == { {}, { <<"o","1","/","o","l","d",".","h","t","m","l">>,
                    <<"o","2","/","p",".","h","t","m","l">> } }

\* outcome value of a fetch that raised instead of returning a response
NoResponse == 0

-----------------------------------------------------------------------------
(* The state of one WebsiteCrawler and of its crawl() call.               *)

VARIABLES
  base_url,       \* self.base_url
  max_pages,      \* self.max_pages
  visited_urls,   \* self.visited_urls
  to_visit_urls,  \* self.to_visit_urls
  current_url,    \* the local current_url of crawl
  pc,             \* the position of crawl: start, loop, try, except,
                  \* finally, done, aborted (an exception left crawl)
  exc,            \* the exception in flight, or "none"
  log,            \* the lines appended to crawl.log by this crawler
  files,          \* the paths written under the output directory
  fetch_count,    \* history: session.get calls issued, per URL
  outcome,        \* history: status of the fetch of a URL (0: it raised)
  save_calls,     \* history: number of save_page calls
  soup,           \* the href values of the page parsed in this iteration
  output_dir,     \* self.output_dir
  sites,          \* crawl_all_sites: the items of TARGET_SITES not run yet
  prev_urls,      \* history: URLs held in the sets of earlier crawlers
  slept,          \* history: time.sleep ran after the last session.get
  discovered,     \* history: in-scope keys linked from parsed 200 pages
  fn_op,          \* pure-function runs: the last operation applied
  fn_parts,       \* pure-function runs: the components of the input URL
  fn_in,          \* pure-function runs: the input URL
  fn_out,         \* pure-function runs: the last result
  fn_prev,        \* pure-function runs: the result before the last one
  fn_n            \* pure-function runs: times normalize_url was applied

job_vars == <<output_dir, sites, prev_urls>>

crawl_vars == <<base_url, max_pages, visited_urls, to_visit_urls, current_url,
                pc, exc, log, files, fetch_count, outcome, save_calls, soup,
                output_dir, sites, prev_urls, slept, discovered>>

fn_vars == <<fn_op, fn_parts, fn_in, fn_out, fn_prev, fn_n>>

vars == <<base_url, max_pages, visited_urls, to_visit_urls, current_url,
          pc, exc, log, files, fetch_count, outcome, save_calls, soup,
          output_dir, sites, prev_urls, slept, discovered,
          fn_op, fn_parts, fn_in, fn_out, fn_prev, fn_n>>

\* One line of crawl.log
LogLine(kind, arg, reason, n) ==
  [kind |-> kind, arg |-> arg, reason |-> reason, n |-> n]

NoParts == [scheme |-> empty, host |-> empty, path |-> empty,
            query |-> empty, fragment |-> empty]

\* No pure-function run is in progress
FnIdle ==
  /\ fn_op = "idle"
  /\ fn_parts = NoParts
  /\ fn_in = empty
  /\ fn_out = empty
  /\ fn_prev = empty
  /\ fn_n = 0

\* The state after WebsiteCrawler.__init__: empty sets, the output
\* directory emptied, the header written to the log
Init ==
  /\ base_url \in Seeds
  /\ max_pages \in 0..MaxBudget
  /\ visited_urls = {}
  /\ to_visit_urls = {}
  /\ current_url = empty
  /\ pc = "start"
  /\ exc = "none"
  /\ log = << LogLine("Header", base_url, "", 0) >>
  /\ files = {}
  /\ fetch_count = << >>
  /\ outcome = << >>
  /\ save_calls = 0
  /\ soup = {}
  /\ output_dir = OutputDir
  /\ sites = << >>
  /\ prev_urls = {}
  /\ slept = FALSE
  /\ discovered = {}
  /\ FnIdle

\* crawl, lines 97-102: log the start and seed the frontier
Start ==
  /\ pc = "start"
  /\ log' = Append(log, LogLine("Starting", base_url, "", 0))
  /\ to_visit_urls' = to_visit_urls \cup {normalize_url(base_url)}
  /\ pc' = "loop"
  /\ UNCHANGED <<base_url, max_pages, visited_urls, current_url, exc, files,
                 fetch_count, outcome, save_calls, soup>>
  /\ UNCHANGED <<slept, discovered>>
  /\ UNCHANGED job_vars
  /\ UNCHANGED fn_vars

\* crawl, lines 104-108: pop a URL that was not visited yet
Dequeue ==
  /\ pc = "loop"
  /\ loop_condition(to_visit_urls, visited_urls, max_pages)
  /\ \E u \in to_visit_urls :
       /\ ~already_visited(u, visited_urls)
       /\ to_visit_urls' = to_visit_urls \ {u}
       /\ current_url' = u
  /\ pc' = "try"
  /\ UNCHANGED <<base_url, max_pages, visited_urls, exc, log, files,
                 fetch_count, outcome, save_calls, soup, slept, discovered>>
  /\ UNCHANGED job_vars
  /\ UNCHANGED fn_vars

\* A skip that reports the URL it skipped in the log
SkipLogged ==
  /\ pc = "loop"
  /\ loop_condition(to_visit_urls, visited_urls, max_pages)
  /\ \E u \in to_visit_urls :
       /\ already_visited(u, visited_urls)
       /\ to_visit_urls' = to_visit_urls \ {u}
       /\ current_url' = u
       /\ log' = Append(log, LogLine("Skipped", u, "", 0))
  /\ pc' = "loop"
  /\ UNCHANGED <<base_url, max_pages, visited_urls, exc, files,
                 fetch_count, outcome, save_calls, soup, slept, discovered>>
  /\ UNCHANGED job_vars
  /\ UNCHANGED fn_vars

\* crawl, lines 104-108: pop a URL that is already visited, and continue
Skip ==
  /\ pc = "loop"
  /\ loop_condition(to_visit_urls, visited_urls, max_pages)
  /\ \E u \in to_visit_urls :
       /\ already_visited(u, visited_urls)
       /\ to_visit_urls' = to_visit_urls \ {u}
       /\ current_url' = u
  /\ pc' = "loop"
  /\ UNCHANGED <<base_url, max_pages, visited_urls, exc, log, files,
                 fetch_count, outcome, save_calls, soup, slept, discovered>>
  /\ UNCHANGED job_vars
  /\ UNCHANGED fn_vars

\* One more session.get issued for u
issued(counts, u) ==
  IF u \in DOMAIN counts THEN [counts EXCEPT ![u] = @ + 1]
  ELSE counts @@ (u :> 1)

\* crawl, line 111: session.get raises (network error, timeout)
FetchError ==
  /\ pc = "try"
  /\ fetch_count' = issued(fetch_count, current_url)
  /\ outcome' = (current_url :> NoResponse) @@ outcome
  /\ exc' = "RequestException"
  /\ pc' = "except"
  /\ slept' = FALSE
  /\ UNCHANGED discovered
  /\ UNCHANGED <<base_url, max_pages, visited_urls, to_visit_urls,
                 current_url, log, files, save_calls, soup>>
  /\ UNCHANGED job_vars
  /\ UNCHANGED fn_vars

\* The status test accepting every response
status_ok_any(status) == status >= 200

\* response.status_code == 200 (line 112)
status_ok(status) == status = 200

\* The in-scope keys the links of a page denote, whether visited or not
linked_keys(links, hrefs) ==
  { l.key : l \in { x \in links :
                      x.href \in hrefs /\ ~x.raises /\ x.valid } }

\* crawl, lines 113-128: a 200 response is decoded, saved and its links
\* are enqueued, then the delay; an exception raised on the way leaves
\* the rest undone, the delay included
Process(hrefs, text_ok, disk_ok, path, extract, linked) ==
  IF ~text_ok
    THEN /\ exc' = "LookupError"
         /\ pc' = "except"
         /\ slept' = FALSE
         /\ UNCHANGED <<save_calls, files, log, to_visit_urls, soup,
                        discovered>>
  ELSE IF ~disk_ok
    THEN /\ save_calls' = save_calls + 1
         /\ exc' = "OSError"
         /\ pc' = "except"
         /\ slept' = FALSE
         /\ UNCHANGED <<files, log, to_visit_urls, soup, discovered>>
  ELSE /\ save_calls' = save_calls + 1
       /\ files' = files \cup {path}
       /\ log' = Append(log, LogLine("Saved", path, "", 0))
       /\ soup' = hrefs
       /\ discovered' = discovered \cup linked
       /\ IF extract.raises
            THEN /\ exc' = "ValueError"
                 /\ pc' = "except"
                 /\ slept' = FALSE
                 /\ UNCHANGED to_visit_urls
            ELSE /\ to_visit_urls' = to_visit_urls \cup extract.links
                 /\ pc' = "finally"
                 /\ slept' = TRUE
                 /\ UNCHANGED exc

\* Lines 113-117 on a response: the text is obtained unless the codec
\* named by get_encoding is unknown
text_of(response) == decode(response, get_encoding(response)) # "LookupError"

\* The responses session.get can return for a status: whether its text
\* decodes, whether the disk accepts the write, and the links of the page
\* (drawn only where the code gets to read them)
Responses(status) ==
  IF ~status_ok(status)
    THEN { [status |-> status, text_ok |-> t, disk_ok |-> TRUE,
            hrefs |-> {}] : t \in {text_of(e) : e \in EncCases} }
    ELSE UNION {
           IF ~t
             THEN { [status |-> status, text_ok |-> t, disk_ok |-> TRUE,
                     hrefs |-> {}] }
             ELSE { [status |-> status, text_ok |-> t, disk_ok |-> FALSE,
                     hrefs |-> {}] }
                  \cup { [status |-> status, text_ok |-> t, disk_ok |-> TRUE,
                          hrefs |-> B] : B \in BodiesOf(base_url) }
           : t \in {text_of(e) : e \in EncCases} }

\* crawl, lines 111-128: session.get returns a response; only a 200
\* response is processed; then the delay
FetchResponse ==
  /\ pc = "try"
  /\ fetch_count' = issued(fetch_count, current_url)
  /\ \E path \in {full_path(output_dir, current_url)} :
       \E links \in {links_at(current_url, HrefsOf(base_url), base_url)} :
         \E status \in Statuses :
           \E response \in Responses(status) :
             /\ outcome' = (current_url :> status) @@ outcome
             /\ IF status_ok(status)
                  THEN Process(response.hrefs,
                               response.text_ok,
                               response.disk_ok,
                               path,
                               extract_links(links, response.hrefs,
                                             visited_urls),
                               linked_keys(links, response.hrefs))
                  ELSE /\ pc' = "finally"
                       /\ slept' = TRUE
                       /\ UNCHANGED <<save_calls, files, log, to_visit_urls,
                                      exc, soup, discovered>>
  /\ UNCHANGED <<base_url, max_pages, visited_urls, current_url>>
  /\ UNCHANGED job_vars
  /\ UNCHANGED fn_vars

\* crawl, lines 130-133: the handler logs the error
Except ==
  /\ pc = "except"
  /\ IF caught(exc)
       THEN /\ log' = Append(log, LogLine("Error", current_url, exc, 0))
            /\ exc' = "none"
       ELSE UNCHANGED <<log, exc>>
  /\ pc' = "finally"
  /\ UNCHANGED <<base_url, max_pages, visited_urls, to_visit_urls,
                 current_url, files, fetch_count, outcome, save_calls, soup>>
  /\ UNCHANGED <<slept, discovered>>
  /\ UNCHANGED job_vars
  /\ UNCHANGED fn_vars

\* crawl, lines 135-136: the URL is marked visited and the iteration
\* ends (its parsed page is dropped); an exception the handler did not
\* catch leaves crawl after this
Finally ==
  /\ pc = "finally"
  /\ visited_urls' = visited_urls \cup {current_url}
  /\ pc' = IF exc = "none" THEN "loop" ELSE "aborted"
  /\ soup' = {}
  /\ UNCHANGED <<base_url, max_pages, to_visit_urls, current_url, exc, log,
                 files, fetch_count, outcome, save_calls>>
  /\ UNCHANGED <<slept, discovered>>
  /\ UNCHANGED job_vars
  /\ UNCHANGED fn_vars

\* crawl, lines 104 and 138-140: the loop exits and the summary is logged
Finish ==
  /\ pc = "loop"
  /\ ~loop_condition(to_visit_urls, visited_urls, max_pages)
  /\ log' = Append(log, LogLine("Finished", empty, "",
                                Cardinality(visited_urls)))
  /\ pc' = "done"
  /\ UNCHANGED <<base_url, max_pages, visited_urls, to_visit_urls,
                 current_url, exc, files, fetch_count, outcome, save_calls, soup>>
  /\ UNCHANGED <<slept, discovered>>
  /\ UNCHANGED job_vars
  /\ UNCHANGED fn_vars

Next ==
  \/ Start
  \/ Dequeue
  \/ Skip
  \/ FetchError
  \/ FetchResponse
  \/ Except
  \/ Finally
  \/ Finish

Spec == Init /\ [][Next]_vars

-----------------------------------------------------------------------------
(* Runs of crawl_all_sites: one WebsiteCrawler per item of TARGET_SITES,  *)
(* each constructed and crawled before the next.                          *)

\* A set attribute that keeps the elements of the previous crawler's set
fresh_shared(old) == old

\* self.visited_urls = set() and self.to_visit_urls = set() (lines 18-19)
fresh(old) == {}

\* Before crawl_all_sites: no crawler yet, files from an earlier session
InitSites ==
  /\ base_url = empty
  /\ max_pages \in 0..MaxBudget
  /\ visited_urls = {}
  /\ to_visit_urls = {}
  /\ current_url = empty
  /\ pc = "idle"
  /\ exc = "none"
  /\ log = << >>
  /\ files \in OldFiles
  /\ fetch_count = << >>
  /\ outcome = << >>
  /\ save_calls = 0
  /\ soup = {}
  /\ output_dir = empty
  /\ sites = TARGET_SITES
  /\ prev_urls = {}
  /\ slept = FALSE
  /\ discovered = {}
  /\ FnIdle

\* crawl_all_sites, lines 150-151, and WebsiteCrawler.__init__: the next
\* site gets a new crawler with empty sets, its output directory is
\* emptied and the header is appended to the log
Construct ==
  /\ pc \in {"idle", "done"}
  /\ sites # << >>
  /\ base_url' = Head(sites).url
  /\ output_dir' = Head(sites).dir
  /\ sites' = Tail(sites)
  /\ visited_urls' = fresh(visited_urls)
  /\ to_visit_urls' = fresh(to_visit_urls)
  /\ files' = {f \in files : ~inside(Head(sites).dir, f)}
  /\ log' = Append(log, LogLine("Header", Head(sites).url, "", 0))
  /\ prev_urls' = prev_urls \cup visited_urls \cup to_visit_urls
  /\ current_url' = empty
  /\ exc' = "none"
  /\ fetch_count' = << >>
  /\ outcome' = << >>
  /\ save_calls' = 0
  /\ soup' = {}
  /\ slept' = FALSE
  /\ discovered' = {}
  /\ pc' = "start"
  /\ UNCHANGED max_pages
  /\ UNCHANGED fn_vars

\* crawl_all_sites, lines 154-156: every site was crawled
AllCrawled ==
  /\ pc = "done"
  /\ sites = << >>
  /\ log' = Append(log, LogLine("AllCrawled", empty, "", 0))
  /\ pc' = "finished"
  /\ UNCHANGED <<base_url, max_pages, visited_urls, to_visit_urls,
                 current_url, exc, files, fetch_count, outcome, save_calls,
                 soup, slept, discovered>>
  /\ UNCHANGED job_vars
  /\ UNCHANGED fn_vars

NextSites ==
  \/ Construct
  \/ Start
  \/ Dequeue
  \/ Skip
  \/ FetchError
  \/ FetchResponse
  \/ Except
  \/ Finally
  \/ Finish
  \/ AllCrawled

SpecSites == InitSites /\ [][NextSites]_vars

\* The job keeps running: session.get returns or raises within its
\* timeout, time.sleep returns and the for loop goes on to the next site,
\* so a step that can be taken is taken
FairSites == SpecSites /\ WF_vars(NextSites)

-----------------------------------------------------------------------------
(* Runs of the pure methods: normalize_url applied to an absolute URL,    *)
(* then again to its own result, and save_page's path mapping applied to  *)
(* the normalized URL.                                                    *)

MaxApply == 2

FnSchemes   == { http, https, <<"H","T","T","P">> }
FnHosts     == { <<"a">>, <<"b",".","a">> }
FnPaths     == { empty,
                 <<"/">>,
                 <<"/","a","/">>,
                 <<"/","a","/","b">>,
                 <<"/","a","/","b",".","p","n","g">>,
                 <<"/","a",".","b","/","c">>,
                 <<"/","/","a">>,
                 <<"/",".",".","/","e">> }
FnQueries   == { empty, <<"?">>, <<"?","q">>, <<"?","q","/","r">> }
FnFragments == { empty, <<"#">>, <<"#","f">>, <<"#","f","?","x">> }

\* The text of the absolute URL with the given components
compose(parts) ==
  parts.scheme \o <<":","/","/">> \o parts.host \o parts.path
    \o parts.query \o parts.fragment

\* No crawl is in progress
CrawlIdle ==
  /\ base_url = empty
  /\ max_pages = 0
  /\ visited_urls = {}
  /\ to_visit_urls = {}
  /\ current_url = empty
  /\ pc = "idle"
  /\ exc = "none"
  /\ log = << >>
  /\ files = {}
  /\ fetch_count = << >>
  /\ outcome = << >>
  /\ save_calls = 0
  /\ soup = {}
  /\ output_dir = empty
  /\ sites = << >>
  /\ prev_urls = {}
  /\ slept = FALSE
  /\ discovered = {}

InitFn ==
  /\ CrawlIdle
  /\ fn_parts \in [scheme : FnSchemes, host : FnHosts, path : FnPaths,
                   query : FnQueries, fragment : FnFragments]
  /\ fn_in = compose(fn_parts)
  /\ fn_op = "input"
  /\ fn_out = empty
  /\ fn_prev = empty
  /\ fn_n = 0

\* normalize_url applied to the input, or to its own last result
Normalize ==
  /\ fn_op \in {"input", "normalize_url"}
  /\ fn_n < MaxApply
  /\ fn_out' = normalize_url(IF fn_op = "input" THEN fn_in ELSE fn_out)
  /\ fn_prev' = fn_out
  /\ fn_n' = fn_n + 1
  /\ fn_op' = "normalize_url"
  /\ UNCHANGED <<fn_parts, fn_in>>
  /\ UNCHANGED crawl_vars

\* save_page's path computation applied to a normalized URL
SavePath ==
  /\ fn_op = "normalize_url"
  /\ fn_out' = save_path(fn_out)
  /\ fn_prev' = fn_out
  /\ fn_op' = "save_page"
  /\ UNCHANGED <<fn_parts, fn_in, fn_n>>
  /\ UNCHANGED crawl_vars

NextFn == Normalize \/ SavePath

SpecFn == InitFn /\ [][NextFn]_vars

-----------------------------------------------------------------------------
(* Properties.                                                            *)

SeedKey == normalize_url(base_url)

\* The text of u is scheme://host or scheme://host/..., for an http or
\* https scheme
HasOrigin(u, host) ==
  \E sch \in {http, https} :
    \/ u = sch \o <<":","/","/">> \o host
    \/ startswith(u, sch \o <<":","/","/">> \o host \o <<"/">>)

\* u has the seed's host and an http or https scheme
InScopeText(u) == HasOrigin(u, urlparse(base_url).netloc)

ErrorLogged(u) ==
  \E i \in 1..Len(log) : log[i].kind = "Error" /\ log[i].arg = u

\* C1: in one run, at most one session.get is issued per normalized URL
\* key: no URL is fetched twice, and no two fetched URLs share a key.
C1_AtMostOneFetchPerKey ==
  /\ \A u \in DOMAIN fetch_count : fetch_count[u] <= 1
  /\ Cardinality({normalize_url(u) : u \in DOMAIN fetch_count})
       = Cardinality(DOMAIN fetch_count)

\* A fetched page carried a link whose text differs from the page's URL
\* but normalizes to it; the key was enqueued again and the page's URL
\* has been fetched once.
C1_Witness ==
  /\ pc = "finally"
  /\ current_url \in to_visit_urls
  /\ \E h \in soup : h # current_url /\ normalize_url(h) = current_url
  /\ fetch_count[current_url] = 1
  /\ Cardinality(DOMAIN fetch_count) >= 2

\* C2: when crawl has left the loop, |visited_urls| <= max_pages, and
\* |visited_urls| = max_pages unless to_visit_urls is empty.
C2_BudgetAtDone ==
  pc = "done" =>
    /\ Cardinality(visited_urls) <= max_pages
    /\ (Cardinality(visited_urls) = max_pages \/ to_visit_urls = {})

\* Done with the budget reached and URLs left in the frontier.
C2_Witness ==
  /\ pc = "done"
  /\ max_pages >= 2
  /\ Cardinality(visited_urls) = max_pages
  /\ to_visit_urls # {}

\* C3: visited_urls and to_visit_urls are disjoint in every reachable
\* state of a run.
C3_Disjoint == visited_urls \cap to_visit_urls = {}

\* C4: every URL in the frontier and every URL fetched has the seed's
\* host (exact match) and an http or https scheme; a link to another
\* host or with another scheme is never enqueued and never fetched.
C4_InScope ==
  \E host \in {urlparse(base_url).netloc} :
    \A u \in to_visit_urls \cup DOMAIN fetch_count : HasOrigin(u, host)

\* Link extraction ran on a page carrying a link to a subdomain of the
\* seed's host or an ftp link, next to a link that was enqueued.
C4_Witness ==
  /\ pc = "finally"
  /\ exc = "none"
  /\ \E h \in soup : ~InScopeText(h) /\ urlparse(h).netloc # empty
  /\ \E h \in soup : urljoin(current_url, h).url \in to_visit_urls

\* C5: a fetch that returns a status other than 200 writes no file, logs
\* nothing, calls neither save_page nor extract_links and raises nothing;
\* the URL is then added to visited_urls and the loop is re-entered.
C5_Non200 ==
  [][ /\ ( /\ pc = "try"
           /\ current_url \in DOMAIN outcome'
           /\ outcome'[current_url] \notin {200, NoResponse} )
         => /\ files' = files
            /\ log' = log
            /\ save_calls' = save_calls
            /\ to_visit_urls' = to_visit_urls
            /\ exc' = "none"
            /\ pc' = "finally"
      /\ ( /\ pc = "finally"
           /\ current_url \in DOMAIN outcome
           /\ outcome[current_url] \notin {200, NoResponse} )
         => /\ current_url \in visited_urls'
            /\ pc' = "loop" ]_vars

\* A discovered link returned 500: it is visited, nothing was saved for
\* it, and the loop has gone on to another frontier entry.
C5_Witness ==
  /\ pc = "try"
  /\ \E u \in visited_urls :
       /\ u # SeedKey
       /\ outcome[u] = 500
       /\ full_path(output_dir, u) \notin files

\* C6: save_page is called at most max_pages times; with max_pages = 1
\* and a seed whose links were enqueued, at Done exactly the seed was
\* fetched and saved, and no error was logged.
C6_PersistedWithinBudget ==
  /\ save_calls <= max_pages
  /\ ( pc = "done" /\ max_pages = 1 /\ Cardinality(to_visit_urls) >= 2 )
       => /\ save_calls = 1
          /\ files = {full_path(output_dir, SeedKey)}
          /\ DOMAIN fetch_count = {SeedKey}
          /\ visited_urls = {SeedKey}
          /\ \A i \in 1..Len(log) : log[i].kind # "Error"

\* Done with a budget of one page and several links left in the frontier.
C6_Witness ==
  /\ pc = "done"
  /\ max_pages = 1
  /\ Cardinality(to_visit_urls) >= 2
  /\ save_calls = 1

\* C7: no exception leaves crawl: the handler always hands over to the
\* finally clause with nothing in flight, the finally clause adds the
\* URL to visited_urls and re-enters the loop, and the loop goes on
\* while the frontier is non-empty and the budget is not reached.
C7_Recovered ==
  [][ /\ pc' # "aborted"
      /\ pc = "except" => (pc' = "finally" /\ exc' = "none")
      /\ pc = "finally" => (current_url \in visited_urls' /\ pc' = "loop")
      /\ ( /\ pc = "loop"
           /\ to_visit_urls # {}
           /\ Cardinality(visited_urls) < max_pages )
         => pc' \in {"try", "loop"} ]_vars

\* An exception raised while decoding, saving or extracting links was
\* logged, the URL is visited, and the loop goes on.
C7_Witness ==
  /\ pc = "try"
  /\ \E i \in 1..Len(log) :
       /\ log[i].kind = "Error"
       /\ log[i].reason \in {"LookupError", "OSError", "ValueError"}
       /\ log[i].arg \in visited_urls

\* C8: when a URL whose fetch ended in a non-200 status or in a network
\* error is about to be marked visited, the log holds an "Error crawling"
\* line for it.
C8_FailureLogged ==
  ( /\ pc = "finally"
    /\ current_url \in DOMAIN outcome
    /\ outcome[current_url] # 200 )
  => ErrorLogged(current_url)

\* The key of the URL with the given components: the lower-cased scheme,
\* the host and the path
KeyOf(parts) ==
  lower(parts.scheme) \o <<":","/","/">> \o parts.host \o parts.path

\* C9: normalize_url of an absolute URL is scheme://host/path without
\* query and fragment, and normalizing that result again returns it.
C9_NormalizeIdempotent ==
  fn_op = "normalize_url" =>
    /\ fn_out = KeyOf(fn_parts)
    /\ fn_n >= 2 => fn_out = fn_prev

\* normalize_url was applied twice to a URL with a query and a fragment.
C9_Witness ==
  /\ fn_op = "normalize_url"
  /\ fn_n = 2
  /\ fn_parts.query = <<"?","q","/","r">>
  /\ fn_parts.fragment = <<"#","f","?","x">>
  /\ fn_out = fn_prev

\* The URL path without its leading slashes
Stripped(path) ==
  IF path = empty \/ path[1] # "/" THEN path
  ELSE LET first == CHOOSE i \in 1..(Len(path) + 1) :
                      /\ \A j \in 1..(i-1) : path[j] = "/"
                      /\ i <= Len(path) => path[i] # "/"
       IN  SubSeq(path, first, Len(path))

\* The final segment of a path
FinalSegment(p) == LET segs == split(p) IN segs[Len(segs)]

\* C10: the path save_page computes follows the four rules, in order, on
\* the URL path without its leading slashes: empty -> index.html; ending
\* in "/" -> path + index.html; final segment without "." -> path +
\* ".html"; otherwise the path itself.
C10_PathRules ==
  fn_op = "save_page" =>
    LET p == Stripped(fn_parts.path)
    IN  /\ p = empty => fn_out = index_html
        /\ (p # empty /\ p[Len(p)] = "/") => fn_out = p \o index_html
        /\ (p # empty /\ p[Len(p)] # "/" /\ ~contains(FinalSegment(p), "."))
             => fn_out = p \o dot_html
        /\ (p # empty /\ p[Len(p)] # "/" /\ contains(FinalSegment(p), "."))
             => fn_out = p
        /\ fn_parts.path = empty => fn_out = index_html
        /\ fn_parts.path = <<"/","a","/">>
             => fn_out = <<"a","/">> \o index_html
        /\ fn_parts.path = <<"/","a","/","b">>
             => fn_out = <<"a","/","b">> \o dot_html
        /\ fn_parts.path = <<"/","a","/","b",".","p","n","g">>
             => fn_out = <<"a","/","b",".","p","n","g">>

\* The path of /a/b was computed, for a URL that had a query.
C10_Witness ==
  /\ fn_op = "save_page"
  /\ fn_parts.path = <<"/","a","/","b">>
  /\ fn_parts.query # empty
  /\ fn_out = <<"a","/","b",".","h","t","m","l">>

\* The path f lies under the crawler's output directory
UnderOutputDir(f) == inside(output_dir, f)

\* C11: every file save_page writes, for any in-scope URL the crawl can
\* fetch, lies under output_dir: the computed path is relative and does
\* not resolve to a location outside output_dir.
C11_UnderOutputDir == \A f \in files : UnderOutputDir(f)

\* The URLs whose fetch returned status 200 in this crawler's run
Fetched200 == {u \in DOMAIN outcome : outcome[u] = 200}

\* C12: when a crawl reaches Done, the files in its output directory are
\* exactly the save_page paths of the URLs fetched with status 200 in
\* this run: every 200 page has its file, no other URL has one, and no
\* file found in the directory before the crawler was built remains.
C12_ExactFiles ==
  pc = "done" =>
    {f \in files : startswith(f, output_dir \o <<"/">>)}
      = {full_path(output_dir, u) : u \in Fetched200}


\* C13: the crawlers of crawl_all_sites run one after another and share
\* no crawl state: a crawler is built only when the one before it has
\* reached Done, it starts with an empty visited_urls and, once seeded, a
\* to_visit_urls holding only its own normalized seed, and no URL that
\* was in the sets of an earlier crawler is ever in its sets.
C13_Isolated ==
  /\ []( (visited_urls \cup to_visit_urls) \cap prev_urls = {} )
  /\ [][ /\ base_url' # base_url
              => /\ base_url # empty => pc = "done"
                 /\ visited_urls' = {}
                 /\ to_visit_urls' = {}
         /\ (pc = "start" /\ pc' = "loop")
              => /\ visited_urls' = {}
                 /\ to_visit_urls' = {normalize_url(base_url)} ]_vars

\* The second crawler parsed a page that links to a URL the first
\* crawler had visited, and has enqueued a link of its own.
C13_Witness ==
  /\ pc = "finally"
  /\ exc = "none"
  /\ \E h \in soup : h \in prev_urls
  /\ to_visit_urls # {}
  /\ base_url = TARGET_SITES[2].url


\* C14: every crawl terminates: a crawl that has started reaches Done,
\* and each iteration either adds a URL that was not in visited_urls to
\* it, or removes an already visited URL from to_visit_urls and adds
\* nothing.
C14_Terminates ==
  /\ (pc = "start") ~> (pc = "done")
  /\ [][ /\ pc = "finally"
              => /\ current_url \notin visited_urls
                 /\ visited_urls' = visited_urls \cup {current_url}
         /\ (pc = "loop" /\ pc' = "loop")
              => /\ current_url' \in visited_urls
                 /\ visited_urls' = visited_urls
                 /\ to_visit_urls' = to_visit_urls \ {current_url'}
                 /\ current_url' \in to_visit_urls ]_vars

\* Done with the frontier drained below the budget, after a page linked
\* back to the seed and the fetch of a visited page had failed.
C14_Witness ==
  /\ pc = "done"
  /\ to_visit_urls = {}
  /\ Cardinality(visited_urls) < max_pages
  /\ Cardinality(visited_urls) >= 2
  /\ SeedKey \in discovered
  /\ \E u \in visited_urls : ErrorLogged(u)


\* C15: between any two consecutive fetches of a run there is one delay
\* step: when the next session.get is about to be issued, time.sleep has
\* run since the previous one, whether that fetch returned 200, another
\* status, or raised.
C15_DelayBetweenFetches ==
  (pc = "try" /\ DOMAIN fetch_count # {}) => slept


\* C16: a link that is out of scope or cannot be parsed is only left out
\* of the frontier: after link extraction ran on a page, nothing was
\* raised, no "Error crawling" line exists for the page, and every
\* in-scope, not yet visited link of the page is in to_visit_urls.
C16_BadLinkOnlySkipped ==
  (pc \in {"except", "finally"} /\ soup # {})
    => /\ exc = "none"
       /\ ~ErrorLogged(current_url)
       /\ linked_keys(links_at(current_url, soup, base_url), soup)
            \ visited_urls
            \subseteq to_visit_urls


\* C17: a decoding failure is never fatal for a page: for a status-200
\* response, whatever encoding get_encoding chose, decoding raises
\* nothing and logs no error, and the page is persisted unless a later
\* step failed.
C17_DecodeNeverFatal ==
  /\ exc # "LookupError"
  /\ \A i \in 1..Len(log) : log[i].reason # "LookupError"
  /\ ( /\ pc = "finally"
       /\ current_url \in Fetched200
       /\ ~ErrorLogged(current_url) )
     => full_path(output_dir, current_url) \in files


\* C18: when the URL removed from to_visit_urls is already in
\* visited_urls, the iteration only removes it: no fetch, no file, no log
\* line, visited_urls and the rest of to_visit_urls unchanged; and a
\* visited URL is never taken on to the fetch.
C18_SkipIsNoOp ==
  [][ /\ (pc = "loop" /\ pc' = "loop")
           => /\ current_url' \in visited_urls
              /\ current_url' \in to_visit_urls
              /\ to_visit_urls' = to_visit_urls \ {current_url'}
              /\ visited_urls' = visited_urls
              /\ fetch_count' = fetch_count
              /\ files' = files
              /\ log' = log
              /\ save_calls' = save_calls
      /\ (pc = "loop" /\ pc' = "try")
           => current_url' \notin visited_urls ]_vars

\* The seed's own link was popped and skipped, with another link still
\* in the frontier.
C18_Witness ==
  /\ pc = "loop"
  /\ current_url = SeedKey
  /\ visited_urls = {SeedKey}
  /\ to_visit_urls # {}
  /\ SeedKey \notin to_visit_urls
  /\ SeedKey \in discovered


\* C19: if a crawl reaches Done with to_visit_urls empty and fewer than
\* max_pages URLs visited, visited_urls is the set of in-scope keys
\* reachable from the normalized seed through links found on pages
\* fetched with status 200: no such page is left unattempted.
C19_Complete ==
  ( /\ pc = "done"
    /\ to_visit_urls = {}
    /\ Cardinality(visited_urls) < max_pages )
  => visited_urls = {SeedKey} \cup discovered


\* u is a normalized key: scheme://host/path, with no query and no
\* fragment
IsKey(u) ==
  /\ ~contains(u, "?")
  /\ ~contains(u, "#")
  /\ \E parsed \in {urlparse(u)} :
       /\ ~parsed.raises
       /\ parsed.query = empty
       /\ parsed.fragment = empty
       /\ u = parsed.scheme \o <<":","/","/">> \o parsed.netloc \o parsed.path

\* C20: in every reachable state every element of to_visit_urls and of
\* visited_urls is a normalized key, and so is every URL a session.get
\* was issued for: no query string or fragment of a link is ever sent.
C20_OnlyKeys ==
  \A u \in to_visit_urls \cup visited_urls \cup DOMAIN fetch_count : IsKey(u)

\* A page carried a link with a query and a fragment; its key, not the
\* link, was enqueued.
C20_Witness ==
  /\ pc = "finally"
  /\ \E h \in soup :
       /\ contains(h, "?")
       /\ contains(h, "#")
       /\ h \notin to_visit_urls
       /\ normalize_url(h) \in to_visit_urls
       /\ normalize_url(h) # h

=============================================================================
